---------------------------- MODULE Spec2Model ----------------------------
(***************************************************************************)
(* Landmark Explorer server: the in-memory TTL cache (server/storage.ts),  *)
(* the landmark route that derives a cache key from map bounds and fills   *)
(* the cache from the Wikipedia geosearch and detail calls, and the        *)
(* geocode route (server/routes.ts, server/api/wikipedia.ts).  Landmark    *)
(* Explorer client: the hooks useBookmarks and useUserLocation             *)
(* (client/src/hooks).                                                     *)
(*                                                                         *)
(* Time is Date.now() in milliseconds.  A JavaScript task (a request       *)
(* callback, an upstream response callback, a timer callback) runs to      *)
(* completion together with the promise continuations it triggers, so one  *)
(* action is one task and the clock does not move inside it.               *)
(***************************************************************************)
EXTENDS Integers, Sequences, FiniteSets, TLC

VARIABLES
    now,      \* Date.now()
    ticks,    \* how many times the clock has advanced
    cache,    \* MemStorage.cache: Map<string, Cache>, a function on the keys present
    lastOp,   \* the last direct call of a MemStorage method and what it returned
    lastPut,  \* per key, the last successful cacheData(key, value, expiryTime)
    req,      \* the GET /api/landmarks requests and where each one stands
    keyIn,    \* two bounding boxes and the cache keys derived from them
    geo,      \* the GET /api/geocode requests and where each one stands
    useBookmarks,     \* the state of the hook useBookmarks and what its
                      \* callbacks of the last render see
    useUserLocation   \* the state of the hook useUserLocation, what its
                      \* callbacks see, and the geolocation requests pending

vars == <<now, ticks, cache, lastOp, lastPut, req, keyIn, geo, useBookmarks,
          useUserLocation>>

-----------------------------------------------------------------------------
(* Bounds of the model *)

\* the clock advances at most this many times between calls of MemStorage
MaxTicks == 2
\* the clock advances at most this many times while requests are served
MaxClock == 1
\* concurrent GET /api/landmarks requests
NumReq == 2
NumGeo == 1
\* useBookmarks: the list grows to at most this many entries
MaxBookmarks == 4
\* useUserLocation: getCurrentPosition requests pending at a time, and
\* watchPosition calls made in all
MaxPending == 2
MaxWatches == 2
\* a coordinate c stands for c / (10^FixedDigits * SubUnit) degrees
SubUnit == 10

\* server/routes.ts:10 (1000 * 60 * 15 ms)
CACHE_EXPIRY_TIME == 900000
\* the argument of toFixed in server/routes.ts:48
FixedDigits == 4
\* boundsSchema: latitude limit in degrees
MaxLat == 90
\* boundsSchema: longitude limit in degrees
MaxLon == 180

-----------------------------------------------------------------------------
(* Number <-> string conversions *)

Digit(d) == <<"0", "1", "2", "3", "4", "5", "6", "7", "8", "9">>[d + 1]

DigitValue(ch) == CHOOSE d \in 0..9 : Digit(d) = ch

RECURSIVE NatToString(_)
NatToString(n) ==
    IF n < 10 THEN <<Digit(n)>>
    ELSE Append(NatToString(n \div 10), Digit(n % 10))

\* Number.prototype.toString of an integer
NumberToString(n) ==
    IF n < 0 THEN <<"-">> \o NatToString(-n) ELSE NatToString(n)

RECURSIVE DigitsToNat(_)
DigitsToNat(s) ==
    IF s = <<>> THEN 0
    ELSE 10 * DigitsToNat(SubSeq(s, 1, Len(s) - 1)) + DigitValue(s[Len(s)])

\* Number(string) of a decimal integer literal
StringToNumber(s) ==
    IF s # <<>> /\ s[1] = "-" THEN 0 - DigitsToNat(Tail(s)) ELSE DigitsToNat(s)

RECURSIVE Pow10(_)
Pow10(k) == IF k = 0 THEN 1 ELSE 10 * Pow10(k - 1)

\* one degree, in coordinate units
Degree == Pow10(FixedDigits) * SubUnit

RECURSIVE Zeros(_)
Zeros(k) == IF k <= 0 THEN <<>> ELSE <<"0">> \o Zeros(k - 1)

\* Number.prototype.toFixed(FixedDigits): the sign is taken from x < 0 before
\* rounding; n is the integer nearest to |x| * 10^f (the larger one on a tie);
\* the digits of n are left-padded with zeros to f + 1 and the point inserted.
ToFixed(x) ==
    LET a == IF x < 0 THEN 0 - x ELSE x
        n == (2 * a + SubUnit) \div (2 * SubUnit)
        m == NatToString(n)
        p == Zeros(FixedDigits + 1 - Len(m)) \o m
        k == Len(p)
        s == SubSeq(p, 1, k - FixedDigits) \o <<".">>
                \o SubSeq(p, k - FixedDigits + 1, k)
    IN  IF x < 0 THEN <<"-">> \o s ELSE s

-----------------------------------------------------------------------------
(* server/storage.ts: MemStorage *)

NoValue == [isNull |-> TRUE, value |-> <<>>]
Value(v) == [isNull |-> FALSE, value |-> v]

\* variant: the comparison is the wrong way round
IsExpiredInverted(entry, t) == StringToNumber(entry.expires) > t

\* the entry is expired at time t (storage.ts lines 33 and 67)
IsExpired(entry, t) == StringToNumber(entry.expires) < t

Without(c, key) == [k \in DOMAIN c \ {key} |-> c[k]]

\* what getCachedData(key) returns at time t
GetCachedDataResult(c, key, t) ==
    IF key \notin DOMAIN c THEN NoValue
    ELSE IF IsExpired(c[key], t) THEN NoValue
    ELSE Value(c[key].value)

\* variant: an expired entry makes the read empty the whole map
GetCachedDataCacheClearsAll(c, key, t) ==
    IF key \in DOMAIN c /\ IsExpired(c[key], t) THEN <<>> ELSE c

\* the map after getCachedData(key) at time t
GetCachedDataCache(c, key, t) ==
    IF key \in DOMAIN c /\ IsExpired(c[key], t) THEN Without(c, key) ELSE c

\* variant: an expiry time equal to the current time is accepted
CacheDataThrowsStrict(expiryTime, t) == expiryTime < t

\* cacheData throws "Expiry time must be a future timestamp."
CacheDataThrows(expiryTime, t) == expiryTime <= t

\* variant: an entry already present under the key is kept
CacheDataCacheKeepExisting(c, key, value, expiryTime) ==
    [k \in DOMAIN c \cup {key} |->
        IF k = key /\ key \notin DOMAIN c
        THEN [id |-> Cardinality(DOMAIN c) + 1, key |-> key, value |-> value,
              expires |-> NumberToString(expiryTime)]
        ELSE c[k]]

\* the map after a cacheData(key, value, expiryTime) that does not throw
CacheDataCache(c, key, value, expiryTime) ==
    [k \in DOMAIN c \cup {key} |->
        IF k = key
        THEN [id |-> Cardinality(DOMAIN c) + 1, key |-> key, value |-> value,
              expires |-> NumberToString(expiryTime)]
        ELSE c[k]]

\* variant: the comparison is the wrong way round, entries still to expire
\* are removed and the expired ones stay
ClearExpiredCacheCacheReversed(c, t) ==
    [k \in {j \in DOMAIN c : ~(StringToNumber(c[j].expires) > t)} |-> c[k]]

\* variant: entries expiring exactly at t are removed as well
ClearExpiredCacheCacheInclusive(c, t) ==
    [k \in {j \in DOMAIN c : StringToNumber(c[j].expires) > t} |-> c[k]]

\* the map after clearExpiredCache() at time t
ClearExpiredCacheCache(c, t) ==
    [k \in {j \in DOMAIN c : ~IsExpired(c[j], t)} |-> c[k]]

-----------------------------------------------------------------------------
(* The clock *)

\* the clock advances by d milliseconds between two tasks
Tick(d) ==
    /\ ticks < MaxTicks
    /\ now' = now + d
    /\ ticks' = ticks + 1
    /\ UNCHANGED <<cache, lastOp, lastPut, req, keyIn, geo, useBookmarks, useUserLocation>>

-----------------------------------------------------------------------------
(* MemStorage called directly: any key, any value, any expiry time *)

StoreKeys == {<<"a">>, <<"b">>}
StoreValues == {<<>>, <<7>>}
ExpiryChoices(t) == {e \in {t - 1, t, t + 1} : e >= 0}

NoOp == [op |-> "none", key |-> <<>>, value |-> <<>>, expiryTime |-> 0,
         t |-> 0, threw |-> FALSE, result |-> NoValue, prior |-> "absent",
         count |-> 0]

NoKeyIn == [pc |-> "idle"]

\* what the map holds for key when a method is called at time t
Prior(c, key, t) ==
    IF key \notin DOMAIN c THEN "absent"
    ELSE IF IsExpired(c[key], t) THEN "expired" ELSE "live"

getCachedData(key) ==
    /\ cache' = GetCachedDataCache(cache, key, now)
    /\ lastOp' = [NoOp EXCEPT !.op = "get", !.key = key, !.t = now,
                              !.result = GetCachedDataResult(cache, key, now),
                              !.prior = Prior(cache, key, now)]
    /\ UNCHANGED <<now, ticks, lastPut, req, keyIn, geo, useBookmarks, useUserLocation>>

cacheData(key, value, expiryTime) ==
    /\ IF CacheDataThrows(expiryTime, now)
       THEN UNCHANGED <<cache, lastPut>>
       ELSE /\ cache' = CacheDataCache(cache, key, value, expiryTime)
            /\ lastPut' = [k \in DOMAIN lastPut \cup {key} |->
                              IF k = key
                              THEN [value |-> value, expiryTime |-> expiryTime]
                              ELSE lastPut[k]]
    /\ lastOp' = [NoOp EXCEPT !.op = "put", !.key = key, !.value = value,
                              !.expiryTime = expiryTime, !.t = now,
                              !.threw = CacheDataThrows(expiryTime, now),
                              !.prior = Prior(cache, key, now)]
    /\ UNCHANGED <<now, ticks, req, keyIn, geo, useBookmarks, useUserLocation>>

\* expiredCount of clearExpiredCache
ExpiredCount(c, t) == Cardinality({k \in DOMAIN c : IsExpired(c[k], t)})

clearExpiredCache ==
    /\ cache' = ClearExpiredCacheCache(cache, now)
    /\ lastOp' = [NoOp EXCEPT !.op = "sweep", !.t = now,
                              !.count = ExpiredCount(cache, now)]
    /\ UNCHANGED <<now, ticks, lastPut, req, keyIn, geo, useBookmarks, useUserLocation>>

InitStore ==
    /\ now = 0
    /\ ticks = 0
    /\ cache = <<>>
    /\ lastOp = NoOp
    /\ lastPut = <<>>
    /\ req = <<>>
    /\ keyIn = NoKeyIn
    /\ geo = <<>>
    /\ useBookmarks = <<>>
    /\ useUserLocation = <<>>

NextStore ==
    \/ Tick(1)
    \/ \E key \in StoreKeys : getCachedData(key)
    \/ \E key \in StoreKeys, value \in StoreValues, e \in ExpiryChoices(now) :
          cacheData(key, value, e)
    \/ clearExpiredCache

SpecStore == InitStore /\ [][NextStore]_vars

\* setInterval(..., cleanupIntervalMs) of the constructor: the sweep keeps
\* being called
SpecStoreLive == SpecStore /\ WF_vars(clearExpiredCache)

-----------------------------------------------------------------------------
(* server/routes.ts: input validation and the cache key *)

\* a query parameter as it arrives: absent, a text that is no number, a number
Missing == [kind |-> "missing", val |-> 0]
Text == [kind |-> "text", val |-> 0]
Num(x) == [kind |-> "num", val |-> x]

NaN == [nan |-> TRUE, val |-> 0]

\* parseFloat(req.query.x as string)
ParseFloat(p) == IF p.kind = "num" THEN [nan |-> FALSE, val |-> p.val] ELSE NaN

\* z.number().min(-limit).max(limit): NaN is no number
ZNumberInRange(x, limit) ==
    ~x.nan /\ x.val >= 0 - limit * Degree /\ x.val <= limit * Degree

\* boundsSchema.parse does not throw
BoundsSchemaParses(b) ==
    /\ ZNumberInRange(b.north, MaxLat)
    /\ ZNumberInRange(b.south, MaxLat)
    /\ ZNumberInRange(b.east, MaxLon)
    /\ ZNumberInRange(b.west, MaxLon)

KeyPrefix == <<"l", "a", "n", "d", "m", "a", "r", "k", "s", "_">>

\* `landmarks_${north.toFixed(4)}_${south.toFixed(4)}_${east.toFixed(4)}_${west.toFixed(4)}`
CacheKey(north, south, east, west) ==
    KeyPrefix \o ToFixed(north) \o <<"_">> \o ToFixed(south) \o <<"_">>
              \o ToFixed(east) \o <<"_">> \o ToFixed(west)

\* variant: fetchLandmarks does not compare the bounds
InvalidMapBoundsNever(north, south, east, west) == FALSE

\* fetchLandmarks throws "Invalid map bounds provided."
InvalidMapBounds(north, south, east, west) == north < south \/ east < west

-----------------------------------------------------------------------------
(* The cache key as a function of the bounds: two boxes, one key each *)

Half == SubUnit \div 2

\* 51.51, 51.50, a value that rounds up and values that round to zero from
\* either side
LatSamples == {-1, 1, Half, 5150 * SubUnit * 100, 5151 * SubUnit * 100}
\* -0.10, -0.08 and values that round to zero from either side
LonSamples == {0 - 1000 * SubUnit, 0 - 800 * SubUnit, -1, 1}

BoxSamples ==
    {b \in [north : LatSamples, south : LatSamples,
            east : LonSamples, west : LonSamples] :
        ~InvalidMapBounds(b.north, b.south, b.east, b.west)}

InitKey ==
    /\ now = 0
    /\ ticks = 0
    /\ cache = <<>>
    /\ lastOp = NoOp
    /\ lastPut = <<>>
    /\ req = <<>>
    /\ geo = <<>>
    /\ useBookmarks = <<>>
    /\ useUserLocation = <<>>
    /\ \E b1, b2 \in BoxSamples :
          keyIn = [pc |-> "idle", b1 |-> b1, b2 |-> b2, k1 |-> <<>>, k2 |-> <<>>]

\* the handler derives the key of each of the two boxes
DeriveKeys ==
    /\ keyIn.pc = "idle"
    /\ keyIn' = [keyIn EXCEPT
          !.pc = "done",
          !.k1 = CacheKey(keyIn.b1.north, keyIn.b1.south, keyIn.b1.east, keyIn.b1.west),
          !.k2 = CacheKey(keyIn.b2.north, keyIn.b2.south, keyIn.b2.east, keyIn.b2.west)]
    /\ UNCHANGED <<now, ticks, cache, lastOp, lastPut, req, geo, useBookmarks, useUserLocation>>

NextKey == DeriveKeys

SpecKey == InitKey /\ [][NextKey]_vars

-----------------------------------------------------------------------------
(* server/api/wikipedia.ts: what the upstream calls return *)

Undefined == "undefined"

PageIds == {1, 2}
Title(p) == <<"Tower Bridge", "The Shard">>[p]

\* an item of response.data.query.geosearch
WikiGeosearchResult(p) ==
    [pageid |-> p, ns |-> 0, title |-> Title(p), lat |-> 515000 + p,
     lon |-> 0 - 800 - p, dist |-> 1000 * p, primary |-> ""]

\* fetchLandmarks: "Convert to our Landmark format" (dist in metres to km)
ToLandmark(result) ==
    [pageid |-> result.pageid, title |-> result.title, lat |-> result.lat,
     lon |-> result.lon, distance |-> result.dist \div 1000]

\* the page lists the geosearch may answer with, in the order it gives them
GeoResultSamples == {<<>>, <<2, 1>>}

\* fetchLandmarks settles: axios rejects, the response has no query.geosearch,
\* or it has one
GeoOutcomes ==
    {[ok |-> FALSE, hasList |-> FALSE, pages |-> <<>>],
     [ok |-> TRUE, hasList |-> FALSE, pages |-> <<>>]}
    \cup {[ok |-> TRUE, hasList |-> TRUE, pages |-> s] : s \in GeoResultSamples}

\* the Landmark[] fetchLandmarks resolves with
FetchLandmarksResult(outcome) ==
    IF outcome.hasList
    THEN [i \in 1..Len(outcome.pages) |->
             ToLandmark(WikiGeosearchResult(outcome.pages[i]))]
    ELSE <<>>

NoThumbnail == [present |-> FALSE, source |-> Undefined]

\* fetchLandmarkDetails(pageId) settles: axios rejects, or it resolves with a
\* page that has an extract and a thumbnail, or with one that has neither
\* (also the { pageid, title: "" } of a response without the page)
DetailOutcomes(p) ==
    {[state |-> "failed", extract |-> Undefined, thumbnail |-> NoThumbnail],
     [state |-> "ok", extract |-> <<"About Tower Bridge", "About The Shard">>[p],
      thumbnail |-> [present |-> TRUE,
                     source |-> <<"tower-bridge.jpg", "the-shard.jpg">>[p]]],
     [state |-> "ok", extract |-> Undefined, thumbnail |-> NoThumbnail]}

Pending == [state |-> "pending", extract |-> Undefined, thumbnail |-> NoThumbnail]

\* details.thumbnail?.source
ThumbnailSource(details) ==
    IF details.thumbnail.present THEN details.thumbnail.source ELSE Undefined

-----------------------------------------------------------------------------
(* server/routes.ts: GET /api/landmarks *)

Req == 1..NumReq

\* the bounds of the scenario: north 51.51, south 51.50, east -0.08, west -0.10
London ==
    [north |-> Num(5151 * SubUnit * 100), south |-> Num(5150 * SubUnit * 100),
     east |-> Num(0 - 800 * SubUnit), west |-> Num(0 - 1000 * SubUnit)]

\* the queries a client sends: valid bounds, north < south, east < west, a
\* latitude above 90, a missing parameter, a parameter that is no number
QuerySamples ==
    {London,
     [London EXCEPT !.north = London.south, !.south = London.north],
     [London EXCEPT !.east = London.west, !.west = London.east],
     [London EXCEPT !.north = Num((MaxLat + 1) * Degree)],
     [London EXCEPT !.west = Missing],
     [London EXCEPT !.east = Text]}

IdleReq ==
    [pc |-> "idle", query |-> London, key |-> <<>>, pages |-> <<>>, landmarks |-> <<>>,
     geosearch |-> "none", details |-> <<>>, status |-> 0, body |-> <<>>, message |-> "",
     responses |-> 0, respondedAt |-> 0, geoCalls |-> 0, detailCalls |-> 0,
     cacheReads |-> 0, cacheWrites |-> 0]

\* res.status(status).json(...)
Respond(rq, status, body, message) ==
    [rq EXCEPT !.pc = "done", !.status = status, !.body = body,
               !.message = message, !.responses = @ + 1, !.respondedAt = now]

\* variant: the error is swallowed and an empty list is sent
CatchErrorEmptyList(rq) == Respond(rq, 200, <<>>, "")

\* the catch of the handler
CatchError(rq) == Respond(rq, 500, <<>>, "Failed to fetch landmarks")

\* variant: an empty array counts as falsy
TruthyNonEmpty(result) == ~result.isNull /\ result.value # <<>>

\* if (cachedLandmarks): null is falsy, an array is truthy even when empty
Truthy(result) == ~result.isNull

\* the request arrives: validation, cache lookup and, on a miss, the start of
\* fetchLandmarks up to its geosearch call
StartLandmarks(r, q) ==
    /\ req[r].pc = "idle"
    /\ LET rq == [req[r] EXCEPT !.query = q]
           b == [north |-> ParseFloat(q.north), south |-> ParseFloat(q.south),
                 east |-> ParseFloat(q.east), west |-> ParseFloat(q.west)]
       IN  IF ~BoundsSchemaParses(b)
           THEN /\ req' = [req EXCEPT ![r] = CatchError(rq)]
                /\ UNCHANGED cache
           ELSE LET key == CacheKey(b.north.val, b.south.val, b.east.val, b.west.val)
                    cachedLandmarks == GetCachedDataResult(cache, key, now)
                    looked == [rq EXCEPT !.key = key, !.cacheReads = @ + 1]
                IN  /\ cache' = GetCachedDataCache(cache, key, now)
                    /\ req' = [req EXCEPT ![r] =
                          IF Truthy(cachedLandmarks)
                          THEN Respond(looked, 200, cachedLandmarks.value, "")
                          ELSE IF InvalidMapBounds(b.north.val, b.south.val,
                                                   b.east.val, b.west.val)
                          THEN CatchError(looked)
                          ELSE [looked EXCEPT !.pc = "geosearch", !.geoCalls = @ + 1,
                                              !.geosearch = "pending"]]
    /\ UNCHANGED <<now, ticks, lastOp, lastPut, keyIn, geo, useBookmarks, useUserLocation>>

\* landmark, or landmark with description and thumbnail (the map callback)
WithDetails(landmark, details) ==
    IF details.state = "failed"
    THEN landmark
    ELSE [pageid |-> landmark.pageid, title |-> landmark.title,
          lat |-> landmark.lat, lon |-> landmark.lon,
          distance |-> landmark.distance,
          description |-> details.extract,
          thumbnail |-> ThumbnailSource(details)]

RECURSIVE KeepSettled(_, _)
KeepSettled(landmarks, details) ==
    IF landmarks = <<>> THEN <<>>
    ELSE IF Head(details).state = "failed"
    THEN KeepSettled(Tail(landmarks), Tail(details))
    ELSE <<WithDetails(Head(landmarks), Head(details))>>
            \o KeepSettled(Tail(landmarks), Tail(details))

\* variant: a landmark whose detail call failed is left out of the list
LandmarksWithDetailsDropFailed(landmarks, details) ==
    KeepSettled(landmarks, details)

\* variant: the list is built back to front
LandmarksWithDetailsReversed(landmarks, details) ==
    [i \in 1..Len(landmarks) |->
        WithDetails(landmarks[Len(landmarks) + 1 - i], details[Len(landmarks) + 1 - i])]

\* landmarksWithDetails once Promise.all has resolved
LandmarksWithDetails(landmarks, details) ==
    [i \in 1..Len(landmarks) |-> WithDetails(landmarks[i], details[i])]

\* variant: a list with a landmark whose detail call failed is answered but
\* not stored
CacheAndRespondSkipDegraded(r, rq, list) ==
    IF \E i \in 1..Len(rq.details) : rq.details[i].state = "failed"
    THEN /\ req' = [req EXCEPT ![r] = Respond(rq, 200, list, "")]
         /\ UNCHANGED cache
    ELSE /\ cache' = CacheDataCache(cache, rq.key, list, now + CACHE_EXPIRY_TIME)
         /\ req' = [req EXCEPT ![r] =
               Respond([rq EXCEPT !.cacheWrites = @ + 1], 200, list, "")]

\* variant: the expiry time handed to cacheData is Date.now()
CacheAndRespondNoExpiry(r, rq, list) ==
    IF CacheDataThrows(now, now)
    THEN /\ req' = [req EXCEPT ![r] = CatchError(rq)]
         /\ UNCHANGED cache
    ELSE /\ cache' = CacheDataCache(cache, rq.key, list, now)
         /\ req' = [req EXCEPT ![r] =
               Respond([rq EXCEPT !.cacheWrites = @ + 1], 200, list, "")]

\* storage.cacheData(cacheKey, landmarksWithDetails, Date.now() + CACHE_EXPIRY_TIME)
\* and res.json(landmarksWithDetails), or the catch when cacheData throws
CacheAndRespond(r, rq, list) ==
    IF CacheDataThrows(now + CACHE_EXPIRY_TIME, now)
    THEN /\ req' = [req EXCEPT ![r] = CatchError(rq)]
         /\ UNCHANGED cache
    ELSE /\ cache' = CacheDataCache(cache, rq.key, list, now + CACHE_EXPIRY_TIME)
         /\ req' = [req EXCEPT ![r] =
               Respond([rq EXCEPT !.cacheWrites = @ + 1], 200, list, "")]

\* the geosearch call of request r settles
GeosearchResponds(r, outcome) ==
    /\ req[r].pc = "geosearch"
    /\ IF ~outcome.ok
       THEN /\ req' = [req EXCEPT ![r] = CatchError([@ EXCEPT !.geosearch = "failed"])]
            /\ UNCHANGED cache
       ELSE LET landmarks == FetchLandmarksResult(outcome)
                rq == [req[r] EXCEPT !.geosearch = "ok",
                                     !.pages = outcome.pages,
                                     !.landmarks = landmarks,
                                     !.details = [i \in 1..Len(landmarks) |-> Pending],
                                     !.detailCalls = @ + Len(landmarks)]
            IN  IF landmarks = <<>>
                THEN CacheAndRespond(r, rq, <<>>)
                ELSE /\ req' = [req EXCEPT ![r] = [rq EXCEPT !.pc = "details"]]
                     /\ UNCHANGED cache
    /\ UNCHANGED <<now, ticks, lastOp, lastPut, keyIn, geo, useBookmarks, useUserLocation>>

\* variant: the list is never resolved, no put and no answer follow
DetailRespondsNoAnswer(r, i, outcome) ==
    /\ req[r].pc = "details"
    /\ i \in 1..Len(req[r].details)
    /\ req[r].details[i].state = "pending"
    /\ req' = [req EXCEPT ![r].details[i] = outcome]
    /\ UNCHANGED <<now, ticks, cache, lastOp, lastPut, keyIn, geo, useBookmarks, useUserLocation>>

\* variant: the first detail call to settle resolves the list
DetailRespondsFirst(r, i, outcome) ==
    /\ req[r].pc = "details"
    /\ i \in 1..Len(req[r].details)
    /\ req[r].details[i].state = "pending"
    /\ LET rq == [req[r] EXCEPT !.details[i] = outcome]
       IN  CacheAndRespond(r, rq, LandmarksWithDetails(rq.landmarks, rq.details))
    /\ UNCHANGED <<now, ticks, lastOp, lastPut, keyIn, geo, useBookmarks, useUserLocation>>

\* the detail call for the i-th landmark of request r settles; the last one to
\* settle resolves Promise.all
DetailResponds(r, i, outcome) ==
    /\ req[r].pc = "details"
    /\ i \in 1..Len(req[r].details)
    /\ req[r].details[i].state = "pending"
    /\ LET rq == [req[r] EXCEPT !.details[i] = outcome]
       IN  IF \E j \in 1..Len(rq.details) : rq.details[j].state = "pending"
           THEN /\ req' = [req EXCEPT ![r] = rq]
                /\ UNCHANGED cache
           ELSE CacheAndRespond(r, rq, LandmarksWithDetails(rq.landmarks, rq.details))
    /\ UNCHANGED <<now, ticks, lastOp, lastPut, keyIn, geo, useBookmarks, useUserLocation>>

\* the setInterval callback of the MemStorage constructor
CleanupTimer ==
    /\ cache' = ClearExpiredCacheCache(cache, now)
    /\ UNCHANGED <<now, ticks, lastOp, lastPut, req, keyIn, geo, useBookmarks, useUserLocation>>

\* between two tasks the clock advances by the whole expiry time
ClockAdvances == ticks < MaxClock /\ Tick(CACHE_EXPIRY_TIME)

Init ==
    /\ now = 0
    /\ ticks = 0
    /\ cache = <<>>
    /\ lastOp = NoOp
    /\ lastPut = <<>>
    /\ req = [r \in Req |-> IdleReq]
    /\ keyIn = NoKeyIn
    /\ geo = <<>>
    /\ useBookmarks = <<>>
    /\ useUserLocation = <<>>

Next ==
    \/ \E r \in Req, q \in QuerySamples : StartLandmarks(r, q)
    \/ \E r \in Req, outcome \in GeoOutcomes : GeosearchResponds(r, outcome)
    \/ \E r \in Req : \E i \in 1..Len(req[r].landmarks) :
          \E outcome \in DetailOutcomes(req[r].landmarks[i].pageid) :
             DetailResponds(r, i, outcome)
    \/ CleanupTimer
    \/ ClockAdvances

Spec == Init /\ [][Next]_vars

-----------------------------------------------------------------------------
(* server/routes.ts: GET /api/geocode, and searchWikipedia *)

GeoReq == 1..NumGeo

\* req.query.q: absent, or a string
NoQ == [present |-> FALSE, chars |-> <<>>]
Q(chars) == [present |-> TRUE, chars |-> chars]

\* the q a client sends: none, the empty string, blanks only, a place name
GeoQuerySamples == {NoQ, Q(<<>>), Q(<<" ", " ">>), Q(<<"S", "o", "h", "o">>)}

\* querySchema.parse does not throw: z.string().min(1)
QuerySchemaParses(q) == q.present /\ Len(q.chars) >= 1

\* query.trim()
RECURSIVE TrimStart(_)
TrimStart(s) ==
    IF s # <<>> /\ Head(s) = " " THEN TrimStart(Tail(s)) ELSE s

RECURSIVE TrimEnd(_)
TrimEnd(s) ==
    IF s # <<>> /\ s[Len(s)] = " " THEN TrimEnd(SubSeq(s, 1, Len(s) - 1)) ELSE s

Trim(s) == TrimEnd(TrimStart(s))

\* searchWikipedia throws "Search query cannot be empty."
SearchQueryEmpty(chars) == chars = <<>> \/ Len(Trim(chars)) = 0

\* the search call settles: axios rejects, the response has no search results,
\* or its first result is a page
SearchOutcomes ==
    {[ok |-> FALSE, top |-> 0], [ok |-> TRUE, top |-> 0], [ok |-> TRUE, top |-> 1]}

\* the coordinates call for page p settles: axios rejects, the page has no
\* coordinates, or it has them
CoordinateOutcomes(p) ==
    {[ok |-> FALSE, found |-> FALSE, lat |-> 0, lon |-> 0, title |-> ""],
     [ok |-> TRUE, found |-> FALSE, lat |-> 0, lon |-> 0, title |-> Title(p)],
     [ok |-> TRUE, found |-> TRUE, lat |-> 515055, lon |-> 0 - 754,
      title |-> Title(p)]}

\* the single-element list searchWikipedia resolves with
SearchWikipediaResult(p, outcome) ==
    <<[pageid |-> p, ns |-> 0, title |-> outcome.title, lat |-> outcome.lat,
       lon |-> outcome.lon, dist |-> 0, primary |-> "true"]>>

\* the Nominatim call settles: axios rejects, response.data is an empty
\* array, or it holds one place (limit: 1) whose lat and lon are strings
NominatimOutcomes ==
    {[ok |-> FALSE, data |-> <<>>],
     [ok |-> TRUE, data |-> <<>>],
     [ok |-> TRUE, data |-> <<[lat |-> Num(515136), lon |-> Num(0 - 1365),
                               display_name |-> "Soho, London"]>>]}

NoGeocodeResult == [lat |-> NaN, lon |-> NaN, display_name |-> ""]

\* variant: lat and lon change places
GeocodeResultOfWikiSwapped(wikiResults) ==
    [lat |-> [nan |-> FALSE, val |-> wikiResults[1].lon],
     lon |-> [nan |-> FALSE, val |-> wikiResults[1].lat],
     display_name |-> wikiResults[1].title]

\* { lat: wikiResults[0].lat, lon: wikiResults[0].lon, display_name: wikiResults[0].title }
GeocodeResultOfWiki(wikiResults) ==
    [lat |-> [nan |-> FALSE, val |-> wikiResults[1].lat],
     lon |-> [nan |-> FALSE, val |-> wikiResults[1].lon],
     display_name |-> wikiResults[1].title]

\* variant: lat is read from a field the place does not have
GeocodeResultOfNominatimNoLat(data) ==
    [lat |-> ParseFloat(Missing), lon |-> ParseFloat(data[1].lon),
     display_name |-> data[1].display_name]

\* { lat: parseFloat(location.lat), lon: parseFloat(location.lon), display_name }
GeocodeResultOfNominatim(data) ==
    [lat |-> ParseFloat(data[1].lat), lon |-> ParseFloat(data[1].lon),
     display_name |-> data[1].display_name]

IdleGeo ==
    [pc |-> "idle", q |-> NoQ, primary |-> "none", cause |-> "",
     wikiResults |-> <<>>, pageId |-> 0, secondary |-> "none",
     places |-> <<>>, status |-> 0,
     body |-> NoGeocodeResult, message |-> "", responses |-> 0,
     searchCalls |-> 0, coordinateCalls |-> 0, nominatimCalls |-> 0]

\* res.status(status).json(...)
RespondGeo(rq, status, body, message) ==
    [rq EXCEPT !.pc = "done", !.status = status, !.body = body,
               !.message = message, !.responses = @ + 1]

\* the outer catch of the handler
CatchGeocodeError(rq) ==
    RespondGeo(rq, 500, NoGeocodeResult, "Failed to geocode location")

\* axios.get(NOMINATIM_API_URL, ...) is issued
CallNominatim(rq) ==
    [rq EXCEPT !.pc = "nominatim", !.secondary = "pending",
               !.nominatimCalls = @ + 1]

\* variant: the answer is sent without return, the handler goes on
PrimaryResolvesNoReturn(rq, wikiResults, cause) ==
    LET settled == [rq EXCEPT !.primary = "resolved", !.cause = cause,
                              !.wikiResults = wikiResults]
    IN  IF Len(wikiResults) > 0
        THEN CallNominatim(RespondGeo(settled, 200,
                                      GeocodeResultOfWiki(wikiResults), ""))
        ELSE CallNominatim(settled)

\* searchWikipedia resolves with wikiResults: the handler answers with the
\* first of them, or goes on to Nominatim when there is none
PrimaryResolves(rq, wikiResults, cause) ==
    LET settled == [rq EXCEPT !.primary = "resolved", !.cause = cause,
                              !.wikiResults = wikiResults]
    IN  IF Len(wikiResults) > 0
        THEN RespondGeo(settled, 200, GeocodeResultOfWiki(wikiResults), "")
        ELSE CallNominatim(settled)

\* variant: no inner try/catch, the error reaches the outer catch
PrimaryRejectsUncaught(rq, cause) ==
    CatchGeocodeError([rq EXCEPT !.primary = "rejected", !.cause = cause])

\* searchWikipedia rejects: the inner catch logs the error and the handler
\* goes on to Nominatim
PrimaryRejects(rq, cause) ==
    CallNominatim([rq EXCEPT !.primary = "rejected", !.cause = cause])

\* variant: more than one place is asked for
LocationFoundSeveral(data) == Len(data) > 1

\* response.data && response.data.length > 0
LocationFound(data) == Len(data) > 0

\* variant: the handler stores what it answered under the query
GeocodeCacheStoresResult(c, rq) ==
    IF rq.status = 200
    THEN CacheDataCache(c, rq.q.chars, <<rq.body>>, now + CACHE_EXPIRY_TIME)
    ELSE c

\* MemStorage.cache after a step of the geocode handler: the handler has no
\* call of storage
GeocodeCache(c, rq) == c

\* the request arrives: querySchema.parse, then searchWikipedia up to its
\* search call
StartGeocode(g, q) ==
    /\ geo[g].pc = "idle"
    /\ LET rq == [geo[g] EXCEPT !.q = q]
       IN  geo' = [geo EXCEPT ![g] =
              IF ~QuerySchemaParses(q)
              THEN CatchGeocodeError(rq)
              ELSE IF SearchQueryEmpty(q.chars)
              THEN PrimaryRejects(rq, "emptyQuery")
              ELSE [rq EXCEPT !.pc = "search", !.primary = "pending",
                              !.searchCalls = @ + 1]]
    /\ cache' = GeocodeCache(cache, geo'[g])
    /\ UNCHANGED <<now, ticks, lastOp, lastPut, req, keyIn, useBookmarks, useUserLocation>>

\* the search call of request g settles
SearchResponds(g, outcome) ==
    /\ geo[g].pc = "search"
    /\ geo' = [geo EXCEPT ![g] =
          IF ~outcome.ok
          THEN PrimaryRejects(@, "searchFailed")
          ELSE IF outcome.top = 0
          THEN PrimaryResolves(@, <<>>, "noMatch")
          ELSE [@ EXCEPT !.pc = "coordinates", !.pageId = outcome.top,
                         !.coordinateCalls = @ + 1]]
    /\ cache' = GeocodeCache(cache, geo'[g])
    /\ UNCHANGED <<now, ticks, lastOp, lastPut, req, keyIn, useBookmarks, useUserLocation>>

\* the coordinates call of request g settles
CoordinatesRespond(g, outcome) ==
    /\ geo[g].pc = "coordinates"
    /\ geo' = [geo EXCEPT ![g] =
          IF ~outcome.ok
          THEN PrimaryRejects(@, "coordinatesFailed")
          ELSE IF ~outcome.found
          THEN PrimaryResolves(@, <<>>, "noCoordinates")
          ELSE PrimaryResolves(@, SearchWikipediaResult(@.pageId, outcome),
                               "coordinates")]
    /\ cache' = GeocodeCache(cache, geo'[g])
    /\ UNCHANGED <<now, ticks, lastOp, lastPut, req, keyIn, useBookmarks, useUserLocation>>

\* the Nominatim call of request g settles with the places in outcome.data
NominatimResponds(g, outcome) ==
    /\ geo[g].pc = "nominatim"
    /\ geo' = [geo EXCEPT ![g] =
          IF ~outcome.ok
          THEN CatchGeocodeError([@ EXCEPT !.secondary = "failed"])
          ELSE LET rq == [@ EXCEPT !.secondary = "answered",
                                   !.places = outcome.data]
               IN  IF LocationFound(outcome.data)
                   THEN RespondGeo(rq, 200, GeocodeResultOfNominatim(outcome.data), "")
                   ELSE RespondGeo(rq, 404, NoGeocodeResult, "Location not found")]
    /\ cache' = GeocodeCache(cache, geo'[g])
    /\ UNCHANGED <<now, ticks, lastOp, lastPut, req, keyIn, useBookmarks, useUserLocation>>

-----------------------------------------------------------------------------
(* The server: the geocode requests beside one landmark request *)

\* the landmark request that runs beside the geocode requests
ServerReq == {1}

InitServer ==
    /\ now = 0
    /\ ticks = 0
    /\ cache = <<>>
    /\ lastOp = NoOp
    /\ lastPut = <<>>
    /\ req = [r \in Req |-> IdleReq]
    /\ keyIn = NoKeyIn
    /\ geo = [g \in GeoReq |-> IdleGeo]
    /\ useBookmarks = <<>>
    /\ useUserLocation = <<>>

NextServer ==
    \/ \E g \in GeoReq, q \in GeoQuerySamples : StartGeocode(g, q)
    \/ \E g \in GeoReq, outcome \in SearchOutcomes : SearchResponds(g, outcome)
    \/ \E g \in GeoReq :
          /\ geo[g].pc = "coordinates"
          /\ \E outcome \in CoordinateOutcomes(geo[g].pageId) :
                CoordinatesRespond(g, outcome)
    \/ \E g \in GeoReq, outcome \in NominatimOutcomes : NominatimResponds(g, outcome)
    \/ \E r \in ServerReq, q \in QuerySamples : StartLandmarks(r, q)
    \/ \E r \in ServerReq, outcome \in GeoOutcomes : GeosearchResponds(r, outcome)
    \/ \E r \in ServerReq : \E i \in 1..Len(req[r].landmarks) :
          \E outcome \in DetailOutcomes(req[r].landmarks[i].pageid) :
             DetailResponds(r, i, outcome)
    \/ CleanupTimer
    \/ ClockAdvances

SpecServer == InitServer /\ [][NextServer]_vars

-----------------------------------------------------------------------------
(* Both routes: two landmark requests, so that the second can be answered  *)
(* from the cache, beside one geocode request                              *)

RoutesReq == {1, 2}
RoutesGeo == {1}

GeosearchSettles(r) == \E outcome \in GeoOutcomes : GeosearchResponds(r, outcome)

DetailSettles(r, i) ==
    /\ i \in 1..Len(req[r].landmarks)
    /\ \E outcome \in DetailOutcomes(req[r].landmarks[i].pageid) :
          DetailResponds(r, i, outcome)

SearchSettles(g) == \E outcome \in SearchOutcomes : SearchResponds(g, outcome)

CoordinatesSettle(g) ==
    /\ geo[g].pc = "coordinates"
    /\ \E outcome \in CoordinateOutcomes(geo[g].pageId) :
          CoordinatesRespond(g, outcome)

NominatimSettles(g) ==
    \E outcome \in NominatimOutcomes : NominatimResponds(g, outcome)

NextRoutes ==
    \/ \E r \in RoutesReq, q \in QuerySamples : StartLandmarks(r, q)
    \/ \E r \in RoutesReq : GeosearchSettles(r)
    \/ \E r \in RoutesReq, i \in 1..Cardinality(PageIds) : DetailSettles(r, i)
    \/ \E g \in RoutesGeo, q \in GeoQuerySamples : StartGeocode(g, q)
    \/ \E g \in RoutesGeo : SearchSettles(g)
    \/ \E g \in RoutesGeo : CoordinatesSettle(g)
    \/ \E g \in RoutesGeo : NominatimSettles(g)
    \/ CleanupTimer
    \/ ClockAdvances

SpecRoutes == InitServer /\ [][NextRoutes]_vars

\* every upstream call that has been issued settles: its promise resolves or
\* rejects
UpstreamSettles ==
    /\ \A r \in ServerReq : WF_vars(GeosearchSettles(r))
    /\ \A r \in ServerReq, i \in 1..Cardinality(PageIds) : WF_vars(DetailSettles(r, i))
    /\ \A g \in GeoReq : WF_vars(SearchSettles(g))
    /\ \A g \in GeoReq : WF_vars(CoordinatesSettle(g))
    /\ \A g \in GeoReq : WF_vars(NominatimSettles(g))

SpecServerLive == SpecServer /\ UpstreamSettles

-----------------------------------------------------------------------------
(* client/src/hooks/use-bookmarks.ts: useBookmarks *)

\* { ...landmark, isBookmarked: true }
Bookmark(p) == [pageid |-> p, title |-> Title(p), isBookmarked |-> TRUE]

\* bookmarks.some((bookmark) => bookmark.pageid === landmarkId)
IsBookmarked(bookmarks, landmarkId) ==
    \E i \in 1..Len(bookmarks) : bookmarks[i].pageid = landmarkId

\* prev.filter((bookmark) => bookmark.pageid !== landmarkId)
RECURSIVE FilterOut(_, _)
FilterOut(prev, landmarkId) ==
    IF prev = <<>> THEN <<>>
    ELSE IF Head(prev).pageid # landmarkId
    THEN <<Head(prev)>> \o FilterOut(Tail(prev), landmarkId)
    ELSE FilterOut(Tail(prev), landmarkId)

\* the hook after addBookmark(landmark): isBookmarked looks at the bookmarks
\* of the render that created the callback, the updater appends to prev
AddBookmarkTo(h, p) ==
    IF ~IsBookmarked(h.rendered, p)
    THEN [h EXCEPT !.bookmarks = Append(@, Bookmark(p))]
    ELSE h

\* the hook after removeBookmark(landmarkId)
RemoveBookmarkFrom(h, landmarkId) ==
    [h EXCEPT !.bookmarks = FilterOut(@, landmarkId)]

\* the hook after toggleBookmark(landmark)
ToggleBookmarkIn(h, p) ==
    IF IsBookmarked(h.rendered, p)
    THEN RemoveBookmarkFrom(h, p)
    ELSE AddBookmarkTo(h, p)

Fits(h) == Len(h.bookmarks) <= MaxBookmarks

addBookmark(p) ==
    /\ Fits(AddBookmarkTo(useBookmarks, p))
    /\ useBookmarks' = AddBookmarkTo(useBookmarks, p)
    /\ UNCHANGED <<now, ticks, cache, lastOp, lastPut, req, keyIn, geo,
                   useUserLocation>>

removeBookmark(landmarkId) ==
    /\ useBookmarks' = RemoveBookmarkFrom(useBookmarks, landmarkId)
    /\ UNCHANGED <<now, ticks, cache, lastOp, lastPut, req, keyIn, geo,
                   useUserLocation>>

toggleBookmark(p) ==
    /\ Fits(ToggleBookmarkIn(useBookmarks, p))
    /\ useBookmarks' = ToggleBookmarkIn(useBookmarks, p)
    /\ UNCHANGED <<now, ticks, cache, lastOp, lastPut, req, keyIn, geo,
                   useUserLocation>>

\* the component renders again with the state the updaters produced: the
\* callbacks now see it, and the effect on [bookmarks] saves it
RenderBookmarks ==
    /\ useBookmarks.rendered # useBookmarks.bookmarks
    /\ useBookmarks' = [useBookmarks EXCEPT !.rendered = useBookmarks.bookmarks,
                                            !.saved = useBookmarks.bookmarks]
    /\ UNCHANGED <<now, ticks, cache, lastOp, lastPut, req, keyIn, geo,
                   useUserLocation>>

\* the component is mounted, localStorage holds no bookmarks
InitBookmarks ==
    /\ now = 0
    /\ ticks = 0
    /\ cache = <<>>
    /\ lastOp = NoOp
    /\ lastPut = <<>>
    /\ req = <<>>
    /\ keyIn = NoKeyIn
    /\ geo = <<>>
    /\ useBookmarks = [bookmarks |-> <<>>, rendered |-> <<>>, saved |-> <<>>]
    /\ useUserLocation = <<>>

NextBookmarks ==
    \/ \E p \in PageIds : addBookmark(p)
    \/ \E p \in PageIds : removeBookmark(p)
    \/ \E p \in PageIds : toggleBookmark(p)
    \/ RenderBookmarks

SpecBookmarks == InitBookmarks /\ [][NextBookmarks]_vars

-----------------------------------------------------------------------------
(* client/src/hooks/use-user-location.ts: useUserLocation *)

\* watchId === null; navigator.geolocation.watchPosition returns ids from 1
NoWatch == 0

\* initialState and useState<number | null>(null). rendered is what the
\* callbacks of the last render see: state.tracking in getUserLocation,
\* watchId in stopTracking and in the cleanup of the effect on [watchId].
\* pending holds, for every getCurrentPosition request not yet answered, the
\* state.tracking its success callback closed over.
InitialLocation(supported) ==
    [supported |-> supported, position |-> FALSE, loading |-> FALSE,
     error |-> FALSE, tracking |-> FALSE, watchId |-> NoWatch,
     rendered |-> [tracking |-> FALSE, watchId |-> NoWatch],
     pending |-> <<>>, watches |-> {}, issued |-> 0]

\* setState(prev => ({ ...prev, error: "Geolocation is not supported by your
\* browser", loading: false }))
NotSupported(h) == [h EXCEPT !.error = TRUE, !.loading = FALSE]

RemoveAt(seq, i) == SubSeq(seq, 1, i - 1) \o SubSeq(seq, i + 1, Len(seq))

getUserLocation ==
    /\ Len(useUserLocation.pending) < MaxPending
    /\ useUserLocation' =
          IF ~useUserLocation.supported
          THEN NotSupported(useUserLocation)
          ELSE [useUserLocation EXCEPT
                   !.loading = TRUE,
                   !.pending = Append(@, useUserLocation.rendered.tracking)]
    /\ UNCHANGED <<now, ticks, cache, lastOp, lastPut, req, keyIn, geo,
                   useBookmarks>>

\* the success callback of the i-th pending getCurrentPosition request:
\* setState({ position, accuracy, loading: false, error: null, timestamp,
\* tracking: state.tracking })
CurrentPositionSuccess(i) ==
    /\ i \in 1..Len(useUserLocation.pending)
    /\ useUserLocation' = [useUserLocation EXCEPT
          !.position = TRUE, !.loading = FALSE, !.error = FALSE,
          !.tracking = useUserLocation.pending[i],
          !.pending = RemoveAt(@, i)]
    /\ UNCHANGED <<now, ticks, cache, lastOp, lastPut, req, keyIn, geo,
                   useBookmarks>>

\* the error callback of the i-th pending getCurrentPosition request
CurrentPositionError(i) ==
    /\ i \in 1..Len(useUserLocation.pending)
    /\ useUserLocation' = [useUserLocation EXCEPT
          !.error = TRUE, !.loading = FALSE, !.pending = RemoveAt(@, i)]
    /\ UNCHANGED <<now, ticks, cache, lastOp, lastPut, req, keyIn, geo,
                   useBookmarks>>

startTracking ==
    /\ useUserLocation.issued < MaxWatches
    /\ useUserLocation' =
          IF ~useUserLocation.supported
          THEN NotSupported(useUserLocation)
          ELSE LET id == useUserLocation.issued + 1
               IN  [useUserLocation EXCEPT
                       !.loading = TRUE, !.tracking = TRUE,
                       !.watches = @ \cup {id}, !.issued = id,
                       !.watchId = id]
    /\ UNCHANGED <<now, ticks, cache, lastOp, lastPut, req, keyIn, geo,
                   useBookmarks>>

stopTracking ==
    /\ useUserLocation' =
          IF useUserLocation.rendered.watchId # NoWatch
          THEN [useUserLocation EXCEPT
                   !.watches = @ \ {useUserLocation.rendered.watchId},
                   !.watchId = NoWatch, !.tracking = FALSE]
          ELSE useUserLocation
    /\ UNCHANGED <<now, ticks, cache, lastOp, lastPut, req, keyIn, geo,
                   useBookmarks>>

\* the success callback of the watch id, while the watch has not been cleared
WatchPositionSuccess(id) ==
    /\ id \in useUserLocation.watches
    /\ useUserLocation' = [useUserLocation EXCEPT
          !.position = TRUE, !.loading = FALSE, !.error = FALSE,
          !.tracking = TRUE]
    /\ UNCHANGED <<now, ticks, cache, lastOp, lastPut, req, keyIn, geo,
                   useBookmarks>>

\* the error callback of the watch id
WatchPositionError(id) ==
    /\ id \in useUserLocation.watches
    /\ useUserLocation' = [useUserLocation EXCEPT
          !.error = TRUE, !.loading = FALSE, !.tracking = TRUE]
    /\ UNCHANGED <<now, ticks, cache, lastOp, lastPut, req, keyIn, geo,
                   useBookmarks>>

\* the component renders again: the callbacks see the new state.tracking and
\* watchId, and when watchId has changed the cleanup of the effect on
\* [watchId] clears the watch the previous render saw
RenderLocation ==
    /\ \/ useUserLocation.rendered.tracking # useUserLocation.tracking
       \/ useUserLocation.rendered.watchId # useUserLocation.watchId
    /\ useUserLocation' = [useUserLocation EXCEPT
          !.rendered = [tracking |-> useUserLocation.tracking,
                        watchId |-> useUserLocation.watchId],
          !.watches =
              IF useUserLocation.rendered.watchId # useUserLocation.watchId
              THEN @ \ {useUserLocation.rendered.watchId}
              ELSE @]
    /\ UNCHANGED <<now, ticks, cache, lastOp, lastPut, req, keyIn, geo,
                   useBookmarks>>

\* the component is mounted, in a browser with or without navigator.geolocation
InitLocation ==
    /\ now = 0
    /\ ticks = 0
    /\ cache = <<>>
    /\ lastOp = NoOp
    /\ lastPut = <<>>
    /\ req = <<>>
    /\ keyIn = NoKeyIn
    /\ geo = <<>>
    /\ useBookmarks = <<>>
    /\ \E supported \in BOOLEAN : useUserLocation = InitialLocation(supported)

NextLocation ==
    \/ getUserLocation
    \/ \E i \in 1..MaxPending : CurrentPositionSuccess(i)
    \/ \E i \in 1..MaxPending : CurrentPositionError(i)
    \/ startTracking
    \/ stopTracking
    \/ \E id \in 1..MaxWatches : WatchPositionSuccess(id)
    \/ \E id \in 1..MaxWatches : WatchPositionError(id)
    \/ RenderLocation

SpecLocation == InitLocation /\ [][NextLocation]_vars

-----------------------------------------------------------------------------
(* Properties of MemStorage (checked under SpecStore) *)

\* a step of SpecStore that is a call of the method named op
IsCall(op) == ticks' = ticks /\ lastOp'.op = op

\* C1: whenever the store holds an entry for k and getCachedData(k) is called
\* at a time now >= expiresAt (now = expiresAt included), it returns absent and
\* the entry is gone afterwards; when now < expiresAt it returns the stored
\* value.
C1_GetAbsentFromExpiry ==
    [][(IsCall("get") /\ lastOp'.key \in DOMAIN cache) =>
         LET k == lastOp'.key
             expiresAt == StringToNumber(cache[k].expires)
         IN  IF now >= expiresAt
             THEN lastOp'.result = NoValue /\ k \notin DOMAIN cache'
             ELSE lastOp'.result = Value(cache[k].value)]_vars

\* C2: cacheData(k, v, expiresAt) with expiresAt <= now throws and leaves the
\* store as it was (a previous entry for k keeps its value and expiry, no entry
\* is created).
C2_PutPastExpiryFails ==
    [][(IsCall("put") /\ lastOp'.expiryTime <= now) =>
         (lastOp'.threw /\ cache' = cache)]_vars

\* C2 witness: a put with expiresAt = now was refused while the key held a live
\* entry with another value.
C2_Witness ==
    /\ lastOp.op = "put" /\ lastOp.threw /\ lastOp.expiryTime = lastOp.t
    /\ lastOp.prior = "live"
    /\ lastOp.key \in DOMAIN cache /\ cache[lastOp.key].value # lastOp.value

\* C3: once cacheData(k, v, now + D) with D > 0 has succeeded and no other put
\* on k has followed, a getCachedData(k) returns v while less than D has
\* elapsed and absent once D has elapsed, whatever was interleaved.
C3_GetFollowsLastPut ==
    (lastOp.op = "get" /\ lastOp.key \in DOMAIN lastPut) =>
        LET p == lastPut[lastOp.key]
        IN  IF lastOp.t < p.expiryTime
            THEN lastOp.result = Value(p.value)
            ELSE lastOp.result = NoValue

\* C4: a successful cacheData(k, v2, t2) on a key that already has an entry,
\* expired or not, leaves the same set of keys, the entry of k with value v2
\* and expiry t2, and every other entry as it was.
C4_PutOverwrites ==
    [][(IsCall("put") /\ ~lastOp'.threw /\ lastOp'.key \in DOMAIN cache) =>
         LET k == lastOp'.key
         IN  /\ DOMAIN cache' = DOMAIN cache
             /\ cache'[k].key = k
             /\ cache'[k].value = lastOp'.value
             /\ StringToNumber(cache'[k].expires) = lastOp'.expiryTime
             /\ \A j \in DOMAIN cache \ {k} : cache'[j] = cache[j]]_vars

\* C4 witness: a put has replaced an expired entry while the other key was
\* present.
C4_Witness ==
    /\ lastOp.op = "put" /\ ~lastOp.threw /\ lastOp.prior = "expired"
    /\ lastOp.value # <<>>
    /\ DOMAIN cache = StoreKeys

\* C5: clearExpiredCache() at time now removes exactly the entries with
\* expiresAt < now and leaves every other entry untouched; a second call with
\* no time elapsed and nothing in between changes nothing.
C5_SweepRemovesExpiredOnly ==
    [][IsCall("sweep") =>
         /\ DOMAIN cache' =
              {k \in DOMAIN cache : ~(StringToNumber(cache[k].expires) < now)}
         /\ \A k \in DOMAIN cache' : cache'[k] = cache[k]
         /\ (lastOp.op = "sweep" /\ lastOp.t = now) => cache' = cache]_vars

\* C5 witness: a sweep removed an entry and kept one that expires exactly at
\* the time of the sweep.
C5_Witness ==
    /\ lastOp.op = "sweep" /\ lastOp.count > 0
    /\ \E k \in DOMAIN cache : StringToNumber(cache[k].expires) = lastOp.t

\* the store holds an entry for key whose expiry time is before Date.now()
HoldsExpired(key) ==
    key \in DOMAIN cache /\ StringToNumber(cache[key].expires) < now

\* C21: as long as the periodic sweep keeps firing, an entry that has expired
\* does not stay in the store forever, even if its key is never read again:
\* whenever the store holds an expired entry for a key, later it holds none.
C21_ExpiredEventuallyRemoved ==
    \A key \in StoreKeys : HoldsExpired(key) ~> ~HoldsExpired(key)

\* C21 witness: the store holds an expired entry, and the last call was not
\* a read.
C21_Witness ==
    \E key \in StoreKeys : HoldsExpired(key) /\ lastOp.op = "put"

\* C24: an entry's value and expiry change only by a put on its own key
\* replacing it, or by eviction. getCachedData on an absent key and on a key
\* that has not expired leaves the whole store unchanged; getCachedData on
\* an expired key removes that key and nothing else.
C24_GetFrame ==
    [][ /\ IsCall("get") =>
              IF HoldsExpired(lastOp'.key)
              THEN /\ DOMAIN cache' = DOMAIN cache \ {lastOp'.key}
                   /\ \A k \in DOMAIN cache' : cache'[k] = cache[k]
              ELSE cache' = cache
        /\ \A k \in DOMAIN cache \cap DOMAIN cache' :
              cache'[k] # cache[k] =>
                  /\ IsCall("put")
                  /\ lastOp'.key = k
                  /\ ~lastOp'.threw ]_vars

\* C24 witness: a read of an expired key removed it while the entry of the
\* other key stayed in the store.
C24_Witness ==
    /\ lastOp.op = "get" /\ lastOp.prior = "expired"
    /\ lastOp.key \notin DOMAIN cache
    /\ cache # <<>>

-----------------------------------------------------------------------------
(* Properties of the cache key (checked under SpecKey) *)

\* x rounded to FixedDigits decimal places, as a number (in 10^-FixedDigits)
Rounded(x) ==
    LET a == IF x < 0 THEN 0 - x ELSE x
        n == (2 * a + SubUnit) \div (2 * SubUnit)
    IN  IF x < 0 THEN 0 - n ELSE n

SameRounding(b1, b2) ==
    /\ Rounded(b1.north) = Rounded(b2.north)
    /\ Rounded(b1.south) = Rounded(b2.south)
    /\ Rounded(b1.east) = Rounded(b2.east)
    /\ Rounded(b1.west) = Rounded(b2.west)

\* C6: two valid bounding boxes whose four edges round to the same
\* 4-decimal-place values, values rounding to zero from the negative and from
\* the positive side included, get the same landmark cache key.
C6_SameRoundingSameKey ==
    (keyIn.pc = "done" /\ SameRounding(keyIn.b1, keyIn.b2)) =>
        keyIn.k1 = keyIn.k2

-----------------------------------------------------------------------------
(* Properties of GET /api/landmarks (checked under Spec) *)

\* the bounds the handler parses from a query
ParsedBounds(q) ==
    [north |-> ParseFloat(q.north), south |-> ParseFloat(q.south),
     east |-> ParseFloat(q.east), west |-> ParseFloat(q.west)]

\* the four bounds are numbers in range and north < south or east < west
Inverted(q) ==
    /\ BoundsSchemaParses(ParsedBounds(q))
    /\ \/ q.north.val < q.south.val
       \/ q.east.val < q.west.val

\* the four bounds are numbers in range, north >= south and east >= west
ValidBounds(q) == BoundsSchemaParses(ParsedBounds(q)) /\ ~Inverted(q)

NoUpstreamCall(rq) == rq.geoCalls = 0 /\ rq.detailCalls = 0

\* C7: a landmark query with north < south or east < west is answered with a
\* 400-class status and issues no geosearch call and no detail call.
C7_InvertedBoundsRejected ==
    \A r \in Req :
        (req[r].pc = "done" /\ Inverted(req[r].query)) =>
            /\ req[r].status \in 400..499
            /\ NoUpstreamCall(req[r])

\* C8: a landmark query with a bound that is missing, not a number or out of
\* range is answered with status 400 without reading or writing the cache and
\* without any upstream call.
C8_MalformedBoundsRejected ==
    \A r \in Req :
        (req[r].pc = "done" /\ ~BoundsSchemaParses(ParsedBounds(req[r].query))) =>
            /\ req[r].status = 400
            /\ req[r].cacheReads = 0 /\ req[r].cacheWrites = 0
            /\ NoUpstreamCall(req[r])

\* C9: when the same valid bounds are queried twice (no other query has that
\* cache key), the first query has responded with a result it cached and the
\* second starts at most CACHE_EXPIRY_TIME after that response, then the second
\* is answered at once from the cache: no upstream call, the same list as the
\* first, and the first query's calls are the only upstream calls.
C9_SecondQueryIsCacheHit ==
    [][\A r1, r2 \in Req :
         ( /\ r1 # r2
           /\ req[r1].pc = "done" /\ req[r1].status = 200
           /\ req[r2].pc = "idle" /\ req'[r2].pc # "idle"
           /\ req'[r2].query = req[r1].query
           /\ ValidBounds(req[r1].query)
           /\ now <= req[r1].respondedAt + CACHE_EXPIRY_TIME
           /\ \A r3 \in Req \ {r1, r2} : req[r3].key # req[r1].key )
         => /\ req'[r2].pc = "done"
            /\ req'[r2].status = 200
            /\ req'[r2].body = req[r1].body
            /\ NoUpstreamCall(req'[r2])
            /\ req[r1].geoCalls = 1
            /\ req[r1].detailCalls = Len(req[r1].landmarks)]_vars

\* C9 witness: the first query cached an empty list, and the second, started
\* exactly CACHE_EXPIRY_TIME after the first response, was answered with it
\* without an upstream call.
C9_Witness ==
    \E r1, r2 \in Req :
        /\ r1 # r2
        /\ req[r1].pc = "done" /\ req[r1].status = 200 /\ req[r1].geoCalls = 1
        /\ req[r1].body = <<>>
        /\ req[r2].pc = "done" /\ req[r2].status = 200 /\ req[r2].geoCalls = 0
        /\ req[r2].query = req[r1].query
        /\ req[r2].respondedAt = req[r1].respondedAt + CACHE_EXPIRY_TIME

\* the entry has no value for the field
LacksField(entry, f) == f \notin DOMAIN entry \/ entry[f] = Undefined

LacksDetails(entry) ==
    LacksField(entry, "description") /\ LacksField(entry, "thumbnail")

\* the request missed the cache and its geosearch returned a list
MissWithList(rq) == rq.pc = "done" /\ rq.geosearch = "ok"

\* C10 as stated: on a miss whose geosearch returned n landmarks the request
\* succeeds with n entries, exactly the entries whose detail fetch failed lack
\* description and thumbnail, and every other entry carries the fields of its
\* own detail fetch.
C10_ExactlyFailedLackDetails ==
    \A r \in Req :
        MissWithList(req[r]) =>
            /\ req[r].status = 200
            /\ Len(req[r].body) = Len(req[r].landmarks)
            /\ \A i \in 1..Len(req[r].landmarks) :
                  /\ LacksDetails(req[r].body[i])
                        <=> req[r].details[i].state = "failed"
                  /\ req[r].details[i].state # "failed" =>
                        /\ req[r].body[i].description = req[r].details[i].extract
                        /\ req[r].body[i].thumbnail =
                              ThumbnailSource(req[r].details[i])

\* C10 amended: on a miss whose geosearch returned n landmarks the request
\* succeeds with n entries in the geosearch order; an entry whose detail fetch
\* failed is the geosearch landmark without description and thumbnail, and
\* every other entry carries the extract and thumbnail its own detail fetch
\* returned, which are absent when that fetch returned none.
C10_FailedDetailsIsolated ==
    \A r \in Req :
        MissWithList(req[r]) =>
            /\ req[r].status = 200
            /\ Len(req[r].body) = Len(req[r].landmarks)
            /\ \A i \in 1..Len(req[r].landmarks) :
                  /\ req[r].body[i].pageid = req[r].landmarks[i].pageid
                  /\ req[r].details[i].state = "failed" =>
                        /\ req[r].body[i] = req[r].landmarks[i]
                        /\ LacksDetails(req[r].body[i])
                  /\ req[r].details[i].state # "failed" =>
                        /\ req[r].body[i].description = req[r].details[i].extract
                        /\ req[r].body[i].thumbnail =
                              ThumbnailSource(req[r].details[i])

\* C10 witness: of two landmarks the detail fetch of the first failed and that
\* of the second returned an extract and a thumbnail; the response has both.
C10_Witness ==
    \E r \in Req :
        /\ MissWithList(req[r]) /\ Len(req[r].body) = 2
        /\ req[r].details[1].state = "failed"
        /\ LacksDetails(req[r].body[1])
        /\ req[r].details[2].state = "ok"
        /\ ~LacksField(req[r].body[2], "description")
        /\ ~LacksField(req[r].body[2], "thumbnail")

-----------------------------------------------------------------------------
(* Properties of GET /api/geocode (checked under SpecServer) *)

\* what the coordinates call holds for page p when the page has coordinates
FoundCoordinates(p) == CHOOSE o \in CoordinateOutcomes(p) : o.found

\* a coordinate as it appears in a response
Coordinate(x) == [nan |-> FALSE, val |-> x]

\* the answer made of the first place Nominatim returned
AnswerOfPlace(place) ==
    [lat |-> Coordinate(place.lat.val), lon |-> Coordinate(place.lon.val),
     display_name |-> place.display_name]

SecondaryMatch(rq) == rq.secondary = "answered" /\ Len(rq.places) > 0
SecondaryEmpty(rq) == rq.secondary = "answered" /\ Len(rq.places) = 0

\* C11: when the primary source (searchWikipedia) returns a non-empty list,
\* the geocode response is its first match, status 200 with that page's
\* latitude, longitude and title, and the secondary source (Nominatim) is
\* never called.
C11_PrimaryMatchAnswers ==
    \A g \in GeoReq :
        Len(geo[g].wikiResults) > 0 =>
            /\ geo[g].pc = "done"
            /\ geo[g].status = 200
            /\ geo[g].responses = 1
            /\ geo[g].body =
                  [lat |-> Coordinate(FoundCoordinates(geo[g].pageId).lat),
                   lon |-> Coordinate(FoundCoordinates(geo[g].pageId).lon),
                   display_name |-> Title(geo[g].pageId)]
            /\ geo[g].body.lat.val = geo[g].wikiResults[1].lat
            /\ geo[g].nominatimCalls = 0
            /\ geo[g].secondary = "none"

\* C11 witness: a request answered 200 from a non-empty primary result.
C11_Witness ==
    \E g \in GeoReq :
        /\ Len(geo[g].wikiResults) > 0
        /\ geo[g].pc = "done"
        /\ geo[g].status = 200

\* C12: when the primary source raises an error (an empty-query throw, a
\* failed search call, a failed coordinates call), the request does not fail
\* on it: Nominatim is called exactly once afterwards, and the response is
\* what Nominatim's outcome says: 200 with its match, 404 when it has none
\* (and the handler's 500 when it fails).
C12_PrimaryErrorFallsBack ==
    \A g \in GeoReq :
        geo[g].primary = "rejected" =>
            /\ geo[g].nominatimCalls = 1
            /\ geo[g].pc \in {"nominatim", "done"}
            /\ geo[g].pc = "nominatim" => geo[g].responses = 0
            /\ geo[g].pc = "done" =>
                  /\ geo[g].responses = 1
                  /\ SecondaryMatch(geo[g]) =>
                        /\ geo[g].status = 200
                        /\ geo[g].body = AnswerOfPlace(geo[g].places[1])
                  /\ SecondaryEmpty(geo[g]) => geo[g].status = 404
                  /\ geo[g].secondary = "failed" => geo[g].status = 500
                  /\ geo[g].secondary \in {"answered", "failed"}

\* C12 witness: the search call failed and the request was answered 200 with
\* Nominatim's match.
C12_Witness ==
    \E g \in GeoReq :
        /\ geo[g].primary = "rejected"
        /\ geo[g].cause = "searchFailed"
        /\ geo[g].pc = "done"
        /\ SecondaryMatch(geo[g])
        /\ geo[g].status = 200

\* C13: when the search has no text match, and when its top match has no
\* coordinates, searchWikipedia resolves with an empty list (it does not
\* reject); the handler then calls Nominatim, and if Nominatim returns a
\* match the response is that single match with lat, lon and display name
\* populated.
C13_EmptyPrimaryFallsBack ==
    \A g \in GeoReq :
        geo[g].cause \in {"noMatch", "noCoordinates"} =>
            /\ geo[g].primary = "resolved"
            /\ geo[g].wikiResults = <<>>
            /\ geo[g].nominatimCalls = 1
            /\ geo[g].pc \in {"nominatim", "done"}
            /\ (geo[g].pc = "done" /\ SecondaryMatch(geo[g])) =>
                  /\ geo[g].status = 200
                  /\ Len(geo[g].places) = 1
                  /\ geo[g].body = AnswerOfPlace(geo[g].places[1])
                  /\ ~geo[g].body.lat.nan
                  /\ ~geo[g].body.lon.nan
                  /\ geo[g].body.display_name # ""

\* C13 witness: the top match had no coordinates and the request was answered
\* with Nominatim's match.
C13_Witness ==
    \E g \in GeoReq :
        /\ geo[g].cause = "noCoordinates"
        /\ geo[g].pc = "done"
        /\ SecondaryMatch(geo[g])
        /\ geo[g].status = 200

\* C14: when the primary source yields no match (empty list or error) and
\* Nominatim completes with no match, the response has status 404; and a 404
\* is never sent while either source produced a match.
C14_NotFoundOnlyWithoutMatch ==
    \A g \in GeoReq :
        /\ ( /\ geo[g].pc = "done"
             /\ geo[g].primary \in {"resolved", "rejected"}
             /\ geo[g].cause # "coordinates"
             /\ SecondaryEmpty(geo[g]) )
           => geo[g].status = 404
        /\ geo[g].status = 404 =>
              /\ geo[g].cause # "coordinates"
              /\ geo[g].wikiResults = <<>>
              /\ ~SecondaryMatch(geo[g])
              /\ SecondaryEmpty(geo[g])

\* C14 witness: the search had no match, Nominatim had none either, and the
\* request was answered 404.
C14_Witness ==
    \E g \in GeoReq :
        /\ geo[g].cause = "noMatch"
        /\ SecondaryEmpty(geo[g])
        /\ geo[g].status = 404

\* C15: a geocode request whose q is missing or the empty string is answered
\* with status 400, and neither the primary nor the secondary source is
\* called.
C15_InvalidQueryIs400 ==
    \A g \in GeoReq :
        (geo[g].pc = "done" /\ (~geo[g].q.present \/ geo[g].q.chars = <<>>)) =>
            /\ geo[g].status = 400
            /\ geo[g].searchCalls = 0
            /\ geo[g].coordinateCalls = 0
            /\ geo[g].nominatimCalls = 0

\* C16: no upstream call is retried. When the geosearch call fails the
\* landmark request is answered 5xx, no detail call is made and the step
\* leaves the cache as it was; when the Nominatim call fails the geocode
\* request is answered 5xx; and within one request the geosearch, each
\* landmark's detail call, the search, the coordinates call and the Nominatim
\* call are each made at most once.
C16_NoRetry ==
    [][ /\ \A r \in Req :
              /\ req'[r].geoCalls <= 1
              /\ req'[r].detailCalls <= Len(req'[r].landmarks)
              /\ req'[r].geosearch = "failed" =>
                    /\ req'[r].pc = "done"
                    /\ req'[r].status >= 500
                    /\ req'[r].status <= 599
                    /\ req'[r].detailCalls = 0
                    /\ req'[r].cacheWrites = 0
                    /\ req[r].geosearch # "failed" => cache' = cache
        /\ \A g \in GeoReq :
              /\ geo'[g].searchCalls <= 1
              /\ geo'[g].coordinateCalls <= 1
              /\ geo'[g].nominatimCalls <= 1
              /\ geo'[g].secondary = "failed" =>
                    /\ geo'[g].pc = "done"
                    /\ geo'[g].status >= 500
                    /\ geo'[g].status <= 599 ]_vars

\* C16 witness: a landmark request whose geosearch failed and a geocode
\* request whose Nominatim call failed, both answered 500, beside a cache
\* that holds nothing.
C16_Witness ==
    /\ \E r \in Req :
          /\ req[r].geosearch = "failed"
          /\ req[r].status = 500
          /\ req[r].geoCalls = 1
    /\ \E g \in GeoReq :
          /\ geo[g].secondary = "failed"
          /\ geo[g].status = 500
          /\ geo[g].nominatimCalls = 1

\* C18: the geocode handler neither reads nor writes the cache store: every
\* step of a geocode request leaves the store's contents as they were.
C18_GeocodeLeavesStore ==
    [][geo' # geo => cache' = cache]_vars

\* C18 witness: a geocode request has been answered 200 while the store holds
\* an entry.
C18_Witness ==
    /\ cache # <<>>
    /\ \E g \in GeoReq : geo[g].pc = "done" /\ geo[g].status = 200

-----------------------------------------------------------------------------
(* Properties of concurrent GET /api/landmarks requests (checked under Spec) *)

PageIdsOf(list) == [i \in 1..Len(list) |-> list[i].pageid]

\* C17: the list returned, and cached, on a miss has the same length and the
\* same order of page ids as the upstream geosearch list, in whatever order
\* the detail calls settle.
C17_OrderPreserved ==
    [][\A r \in Req :
         ( /\ req[r].pc \in {"geosearch", "details"}
           /\ req'[r].pc = "done"
           /\ req'[r].geosearch = "ok" )
         => /\ req'[r].status = 200
            /\ Len(req'[r].body) = Len(req'[r].pages)
            /\ PageIdsOf(req'[r].body) = req'[r].pages
            /\ req'[r].key \in DOMAIN cache'
            /\ PageIdsOf(cache'[req'[r].key].value) = req'[r].pages]_vars

\* C17 witness: the geosearch list was 2, 1; the detail call of the second
\* landmark succeeded and that of the first failed; the body lists 2, 1.
C17_Witness ==
    \E r \in Req :
        /\ req[r].pc = "done"
        /\ req[r].status = 200
        /\ req[r].pages = <<2, 1>>
        /\ PageIdsOf(req[r].body) = <<2, 1>>
        /\ req[r].details[1].state = "failed"
        /\ req[r].details[2].state = "ok"

\* the request has missed the cache and is still fetching
Fetching(rq) == rq.pc \in {"geosearch", "details"}

\* C19: when two landmark requests for the same key both miss and run
\* concurrently, both complete successfully and both write; after the later
\* put the store holds exactly one entry for the key, with the value and the
\* expiry of that later put, and every other entry is as it was.
C19_LastWriterWins ==
    [][\A r1, r2 \in Req :
         ( /\ r1 # r2
           /\ req[r1].pc = "done" /\ req[r1].cacheWrites = 1
           /\ now <= req[r1].respondedAt + CACHE_EXPIRY_TIME
           /\ Fetching(req[r2]) /\ req[r2].key = req[r1].key
           /\ req'[r2].pc = "done" /\ req'[r2].geosearch = "ok" )
         => LET key == req[r2].key
            IN  /\ req[r1].status = 200
                /\ req'[r2].status = 200
                /\ req'[r2].cacheWrites = 1
                /\ DOMAIN cache' = DOMAIN cache \cup {key}
                /\ cache'[key].key = key
                /\ cache'[key].value = req'[r2].body
                /\ StringToNumber(cache'[key].expires) = now + CACHE_EXPIRY_TIME
                /\ \A k \in DOMAIN cache \ {key} : cache'[k] = cache[k]]_vars

\* C19 witness: two requests for one key were answered at the same clock
\* value, both after a miss and a put, with different lists; the store holds
\* one of the two lists.
C19_Witness ==
    \E r1, r2 \in Req :
        /\ r1 # r2
        /\ req[r1].pc = "done" /\ req[r2].pc = "done"
        /\ req[r1].key = req[r2].key
        /\ req[r1].cacheWrites = 1 /\ req[r2].cacheWrites = 1
        /\ req[r1].respondedAt = req[r2].respondedAt
        /\ req[r1].body # req[r2].body
        /\ req[r1].key \in DOMAIN cache
        /\ cache[req[r1].key].value = req[r2].body

\* C20: requests are coalesced per cache key: while one landmark request for
\* a key is still waiting for its geosearch, no second request for the same
\* key has a geosearch of its own in flight.
C20_OneGeosearchPerKey ==
    \A r1, r2 \in Req :
        (r1 # r2 /\ req[r1].pc = "geosearch" /\ req[r2].pc = "geosearch")
            => req[r1].key # req[r2].key

\* the store holds an entry for key that getCachedData still returns
HoldsEntry(key) ==
    key \in DOMAIN cache /\ StringToNumber(cache[key].expires) >= now

\* C20 (amended): requests are not coalesced while in flight. A landmark
\* request with valid bounds issues its own geosearch exactly when the store
\* holds no entry for its key that getCachedData still returns, also while
\* another request for the same key is fetching; no request issues more than
\* one geosearch.
C20_OneGeosearchPerRequest ==
    [][\A r \in Req :
         /\ req'[r].geoCalls <= 1
         /\ ( /\ req[r].pc = "idle" /\ req'[r].pc # "idle"
              /\ ValidBounds(req'[r].query) )
            => /\ HoldsEntry(req'[r].key) => NoUpstreamCall(req'[r])
               /\ ~HoldsEntry(req'[r].key) =>
                     /\ req'[r].pc = "geosearch"
                     /\ req'[r].geoCalls = 1]_vars

\* C20 witness: two requests for one key are both waiting for a geosearch of
\* their own.
C20_Witness ==
    \E r1, r2 \in Req :
        /\ r1 # r2
        /\ req[r1].pc = "geosearch" /\ req[r2].pc = "geosearch"
        /\ req[r1].key = req[r2].key
        /\ req[r1].geoCalls = 1 /\ req[r2].geoCalls = 1

\* the step completes the miss of request r: its last upstream call settles
CompletesMiss(r) ==
    Fetching(req[r]) /\ req'[r].pc = "done" /\ req'[r].geosearch = "ok"

\* the step answers request r from the cache
IsHit(r) ==
    req[r].pc = "idle" /\ req'[r].pc = "done" /\ req'[r].status = 200

C23_RespondsAfterAllSettled ==
    [][\A r \in Req :
         ( /\ \/ req'[r].responses > req[r].responses
              \/ req'[r].cacheWrites > req[r].cacheWrites
           /\ req'[r].geosearch = "ok" )
         => /\ Len(req'[r].details) = Len(req'[r].landmarks)
            /\ req'[r].detailCalls = Len(req'[r].landmarks)
            /\ \A i \in 1..Len(req'[r].details) :
                  req'[r].details[i].state \in {"ok", "failed"}
            /\ req'[r].cacheWrites = 1
            /\ req'[r].responses = 1]_vars

\* C23 witness: a miss with two landmarks was answered after the first detail
\* call had succeeded and the second had failed.
C23_Witness ==
    \E r \in Req :
        /\ req[r].pc = "done" /\ req[r].geosearch = "ok"
        /\ req[r].responses = 1 /\ req[r].cacheWrites = 1
        /\ Len(req[r].details) = 2
        /\ req[r].details[1].state = "ok"
        /\ req[r].details[2].state = "failed"

\* C27: every key in the store comes from a request whose bounds passed
\* validation (numbers in range, north >= south, east >= west) and whose
\* geosearch succeeded; a request with bounds out of range, with north <
\* south or east < west, or whose geosearch failed, writes nothing: the step
\* that answers it neither creates nor replaces an entry.
C27_KeysOnlyFromValidSuccess ==
    [][ /\ \A k \in DOMAIN cache' :
              \E r \in Req :
                  /\ req'[r].key = k
                  /\ ValidBounds(req'[r].query)
                  /\ req'[r].geosearch = "ok"
                  /\ req'[r].cacheWrites = 1
        /\ \A r \in Req :
              ( /\ req'[r] # req[r]
                /\ req'[r].pc = "done"
                /\ ~ValidBounds(req'[r].query) \/ req'[r].geosearch = "failed" )
              => /\ req'[r].cacheWrites = 0
                 /\ \A k \in DOMAIN cache' :
                       k \in DOMAIN cache /\ cache'[k] = cache[k] ]_vars

\* C27 witness: the store holds an entry written by one request while the
\* other, with north < south, was answered 500 without a write.
C27_Witness ==
    \E r1, r2 \in Req :
        /\ req[r1].pc = "done" /\ req[r1].cacheWrites = 1
        /\ req[r1].key \in DOMAIN cache
        /\ req[r2].pc = "done" /\ req[r2].status = 500
        /\ req[r2].query.north.val < req[r2].query.south.val
        /\ req[r2].cacheWrites = 0
        /\ req[r2].key \notin DOMAIN cache

\* the list has an entry without description and thumbnail
Degraded(list) == \E i \in 1..Len(list) : LacksDetails(list[i])

\* C28: a degraded result is cached as it is. When a detail call fails during
\* a miss, the list in which that landmark lacks description and thumbnail
\* is stored with the full 15-minute expiry; and a later request for the key
\* that finds the entry unexpired is answered with that same list without
\* any upstream call, the entry staying as it is.
C28_DegradedResultCached ==
    [][\A r \in Req :
         /\ ( /\ CompletesMiss(r)
              /\ \E i \in 1..Len(req'[r].details) :
                    req'[r].details[i].state = "failed" )
            => /\ req'[r].key \in DOMAIN cache'
               /\ cache'[req'[r].key].value = req'[r].body
               /\ \A i \in 1..Len(req'[r].details) :
                     req'[r].details[i].state = "failed"
                        => LacksDetails(cache'[req'[r].key].value[i])
               /\ StringToNumber(cache'[req'[r].key].expires)
                     = now + CACHE_EXPIRY_TIME
         /\ ( /\ req[r].pc = "idle" /\ req'[r].pc # "idle"
              /\ ValidBounds(req'[r].query)
              /\ HoldsEntry(req'[r].key)
              /\ Degraded(cache[req'[r].key].value) )
            => /\ req'[r].pc = "done"
               /\ req'[r].status = 200
               /\ req'[r].body = cache[req'[r].key].value
               /\ NoUpstreamCall(req'[r])
               /\ cache' = cache]_vars

\* C28 witness: the first detail call of a miss failed; 15 minutes later the
\* other request was answered from the cache with the same list, whose first
\* landmark lacks description and thumbnail, without a detail call.
C28_Witness ==
    \E r, w \in Req :
        /\ req[w].pc = "done" /\ req[w].cacheWrites = 1
        /\ Len(req[w].details) = 2
        /\ req[w].details[1].state = "failed"
        /\ req[r].pc = "done" /\ req[r].status = 200
        /\ req[r].key = req[w].key
        /\ NoUpstreamCall(req[r])
        /\ req[r].respondedAt = req[w].respondedAt + CACHE_EXPIRY_TIME
        /\ req[r].body = req[w].body
        /\ LacksDetails(req[r].body[1])
        /\ req[r].key \in DOMAIN cache
        /\ cache[req[r].key].value = req[r].body

-----------------------------------------------------------------------------
(* Properties of both routes (checked under SpecRoutes and SpecServerLive) *)

\* C25: every landmark request and every geocode request sends exactly one
\* response: a request that has been handled to its end has sent one, a
\* request still waiting for an upstream call has sent none, and on no path
\* (cache hit, miss, primary match, fallback, not found, caught error) is a
\* second one sent.
C25_ExactlyOneResponse ==
    /\ \A r \in Req :
          /\ req[r].responses <= 1
          /\ req[r].pc = "done" <=> req[r].responses = 1
          /\ req[r].pc = "done" <=> req[r].status # 0
    /\ \A g \in GeoReq :
          /\ geo[g].responses <= 1
          /\ geo[g].pc = "done" <=> geo[g].responses = 1
          /\ geo[g].pc = "done" <=> geo[g].status # 0

\* C25 witness: one landmark request answered after a miss, the other from
\* the cache, and a geocode request answered by the fallback, one response
\* each.
C25_Witness ==
    /\ \E r1, r2 \in Req :
          /\ req[r1].pc = "done" /\ req[r1].cacheWrites = 1
          /\ req[r1].responses = 1
          /\ req[r2].pc = "done" /\ req[r2].status = 200 /\ req[r2].geoCalls = 0
          /\ req[r2].responses = 1
    /\ \E g \in GeoReq :
          /\ geo[g].pc = "done" /\ geo[g].secondary = "answered"
          /\ geo[g].responses = 1

\* C26: every landmark request and every geocode request that has arrived
\* is eventually answered, provided every upstream call it issues eventually
\* resolves or rejects; the cleanup timer and the clock running in between
\* do not prevent it.
C26_EveryRequestAnswered ==
    /\ \A r \in ServerReq :
          (req[r].pc # "idle") ~> (req[r].pc = "done" /\ req[r].responses = 1)
    /\ \A g \in GeoReq :
          (geo[g].pc # "idle") ~> (geo[g].pc = "done" /\ geo[g].responses = 1)

\* C26 witness: a landmark request was answered after its geosearch and both
\* detail calls, 15 minutes after the server started, and a geocode request
\* after its search, coordinates and Nominatim calls.
C26_Witness ==
    /\ \E r \in ServerReq :
          /\ req[r].pc = "done" /\ req[r].geoCalls = 1 /\ req[r].detailCalls = 2
          /\ req[r].respondedAt = CACHE_EXPIRY_TIME
    /\ \E g \in GeoReq :
          /\ geo[g].pc = "done" /\ geo[g].searchCalls = 1
          /\ geo[g].coordinateCalls = 1 /\ geo[g].nominatimCalls = 1

-----------------------------------------------------------------------------
(* Properties of useBookmarks (checked under SpecBookmarks) *)

\* C29: after any sequence of addBookmark, removeBookmark and toggleBookmark
\* calls, several of them before the component renders again included, the
\* bookmarks list never holds two entries with the same pageid.
C29_NoDuplicateBookmarks ==
    \A i, j \in 1..Len(useBookmarks.bookmarks) :
        i # j => useBookmarks.bookmarks[i].pageid # useBookmarks.bookmarks[j].pageid

-----------------------------------------------------------------------------
(* Properties of useUserLocation (checked under SpecLocation) *)

\* C30: the tracking flag is true exactly when a geolocation watch is active
\* (watchId is not null), after any sequence of getUserLocation,
\* startTracking, stopTracking and position or error callbacks, in any order
\* of arrival.
C30_TrackingIffWatching ==
    useUserLocation.tracking <=> useUserLocation.watchId # NoWatch

=============================================================================
